---- MODULE Spec2Model ----
(***************************************************************************)
(* Model of src/odds_xg.py (BetWise odds calculator).                      *)
(*                                                                         *)
(* The two numerical procedures of the script are modelled:                *)
(*   calculate_1x2_and_xg        (src/odds_xg.py:17-43)                    *)
(*   calculate_xg_from_dnb_probs (src/odds_xg.py:45-100)                   *)
(* together with the tab1 block that calls them, derives the decimal odds  *)
(* and displays them (src/odds_xg.py:444-446, 536-589), and the session of *)
(* the Streamlit script: the sidebar, the "Get Ratings" fetch and the      *)
(* tables kept in st.session_state (src/odds_xg.py:241-273, 375-407).      *)
(*                                                                         *)
(* Numbers.  Python floats are modelled as exact rationals: a real value   *)
(* is a pair num/den of natural numbers of unbounded size (digit           *)
(* sequences, see "Natural numbers" below), so sums, products and          *)
(* quotients are exact and the rounding error of double arithmetic is not  *)
(* modelled.  What is modelled of the floating-point format is underflow   *)
(* of poisson.pmf to 0.0 (PmfUnderflows) and the two possible results of   *)
(* round() on a value that lies half-way between two 4-decimal numbers     *)
(* (Round4).                                                               *)
(***************************************************************************)
EXTENDS Integers, Sequences, FiniteSets, TLC

(***************************************************************************)
(* Natural numbers of unbounded size: little-endian sequences of digits in *)
(* base Base without leading zeros; << >> is 0.  Sums and differences      *)
(* resolve their carries by look-ahead, products are sums of digit         *)
(* columns, so that no operator recurses along the length of a number.     *)
(***************************************************************************)
Base == 10 * 100

\* The sequence with the same elements as the function s on 1..n.
AsSeq(s) == s \o << >>

\* The element of the one-element set S.  In The({e(v) : v \in {d}}) the value
\* d is computed before e(v) is.
The(S) == CHOOSE v \in S : TRUE

Digit(a, i) == IF i >= 1 /\ i <= Len(a) THEN a[i] ELSE 0

\* a without its leading (most significant) zeros.
StripZeros(a) ==
    IF \A i \in 1..Len(a) : a[i] = 0 THEN << >>
    ELSE SubSeq(a, 1, CHOOSE i \in 1..Len(a) :
                         a[i] # 0 /\ \A k \in (i + 1)..Len(a) : a[k] = 0)

\* The number n (0 for n <= 0; n < Base^4 otherwise).
BigOf(n) ==
    IF n <= 0 THEN << >>
    ELSE StripZeros(<<n % Base, (n \div Base) % Base,
                      (n \div (Base * Base)) % Base,
                      n \div (Base * Base * Base)>>)

BigAdd(a, b) ==
    IF a = << >> THEN b
    ELSE IF b = << >> THEN a
    ELSE
    LET n == IF Len(a) > Len(b) THEN Len(a) ELSE Len(b)
        s == AsSeq([i \in 1..n |-> Digit(a, i) + Digit(b, i)])
        carry(i) == IF \E j \in 1..(i - 1) :
                          s[j] >= Base /\ \A k \in (j + 1)..(i - 1) : s[k] = Base - 1
                    THEN 1 ELSE 0
    IN  StripZeros(AsSeq([i \in 1..(n + 1) |->
                            ((IF i <= n THEN s[i] ELSE 0) + carry(i)) % Base]))

\* The sum of the numbers t[lo], ..., t[hi] of the sequence t, by halving.
RECURSIVE BigSum(_, _, _)
BigSum(t, lo, hi) ==
    IF lo > hi THEN << >>
    ELSE IF lo = hi THEN t[lo]
    ELSE The({BigAdd(l, h) : l \in {BigSum(t, lo, (lo + hi) \div 2)},
                             h \in {BigSum(t, (lo + hi) \div 2 + 1, hi)}})

\* a - b for a >= b.
BigSub(a, b) ==
    LET n == Len(a)
        d == AsSeq([i \in 1..n |-> a[i] - Digit(b, i)])
        borrow(i) == IF \E j \in 1..(i - 1) :
                           d[j] < 0 /\ \A k \in (j + 1)..(i - 1) : d[k] = 0
                     THEN 1 ELSE 0
    IN  StripZeros(AsSeq([i \in 1..n |-> (d[i] - borrow(i)) % Base]))

BigLess(a, b) ==
    IF Len(a) # Len(b) THEN Len(a) < Len(b)
    ELSE \E i \in 1..Len(a) :
            a[i] < b[i] /\ \A k \in (i + 1)..Len(a) : a[k] = b[k]

BigLeq(a, b) == ~BigLess(b, a)

BigDist(a, b) == IF BigLess(a, b) THEN BigSub(b, a) ELSE BigSub(a, b)

\* The sum of a[i] * b[k + 1 - i] over i in lo..hi (both indices in range),
\* computed by halving the range.
RECURSIVE Column(_, _, _, _, _)
Column(a, b, k, lo, hi) ==
    IF lo > hi THEN 0
    ELSE IF lo = hi THEN a[lo] * b[k + 1 - lo]
    ELSE LET half == (lo + hi) \div 2
         IN  Column(a, b, k, lo, half) + Column(a, b, k, half + 1, hi)

BigMul(a, b) ==
    IF a = << >> \/ b = << >> THEN << >>
    ELSE LET n == Len(a) + Len(b) - 1
             c == AsSeq([k \in 1..n |->
                           Column(a, b, k, IF k > Len(b) THEN k + 1 - Len(b) ELSE 1,
                                           IF k < Len(a) THEN k ELSE Len(a))])
             low == AsSeq([k \in 1..n |-> c[k] % Base])
             mid == AsSeq([k \in 1..(n + 1) |->
                              IF k = 1 THEN 0 ELSE (c[k - 1] \div Base) % Base])
             high == AsSeq([k \in 1..(n + 2) |->
                              IF k <= 2 THEN 0 ELSE c[k - 2] \div (Base * Base)])
         IN  BigAdd(BigAdd(StripZeros(low), StripZeros(mid)), StripZeros(high))

RECURSIVE BigPow(_, _)
BigPow(a, k) ==
    IF k = 0 THEN <<1>>
    ELSE The({IF k % 2 = 0 THEN h2 ELSE BigMul(a, h2) :
                h2 \in {BigMul(h, h) : h \in {BigPow(a, k \div 2)}}})

\* (lo + 1) * (lo + 2) * ... * hi, by halving; 1 for lo >= hi.
RECURSIVE RangeProduct(_, _)
RangeProduct(lo, hi) ==
    IF lo >= hi THEN <<1>>
    ELSE IF lo + 1 = hi THEN BigOf(hi)
    ELSE The({BigMul(l, h) : l \in {RangeProduct(lo, (lo + hi) \div 2)},
                             h \in {RangeProduct((lo + hi) \div 2, hi)}})

\* m! / k! for k <= m.
FactorialRatio(m, k) == RangeProduct(k, m)

(***************************************************************************)
(* Non-negative rationals [num, den] with den > 0, not reduced.  Two       *)
(* rationals over the same denominator are combined without changing it.   *)
(***************************************************************************)
Rat(n, d) == [num |-> n, den |-> d]
RatOf(n, d) == Rat(BigOf(n), BigOf(d))
RZero == Rat(<< >>, <<1>>)
ROne == Rat(<<1>>, <<1>>)

\* The numerators of p and q over the denominator CommonDen(p, q).
OverCommon(p, q) ==
    IF p.den = q.den THEN <<p.num, q.num>>
    ELSE <<BigMul(p.num, q.den), BigMul(q.num, p.den)>>
CommonDen(p, q) == IF p.den = q.den THEN p.den ELSE BigMul(p.den, q.den)

REq(p, q) == LET c == OverCommon(p, q) IN c[1] = c[2]
RLess(p, q) == LET c == OverCommon(p, q) IN BigLess(c[1], c[2])
RLeq(p, q) == ~RLess(q, p)
RAdd(p, q) == LET c == OverCommon(p, q) IN Rat(BigAdd(c[1], c[2]), CommonDen(p, q))
\* p - q for p >= q.
RSub(p, q) == LET c == OverCommon(p, q) IN Rat(BigSub(c[1], c[2]), CommonDen(p, q))
\* p / q for q > 0.
RDiv(p, q) ==
    IF p.den = q.den THEN Rat(p.num, q.num)
    ELSE Rat(BigMul(p.num, q.den), BigMul(q.num, p.den))
\* (p - q)^2.
RSqDist(p, q) ==
    LET c == OverCommon(p, q)
        d == BigDist(c[1], c[2])
        e == CommonDen(p, q)
    IN  Rat(BigMul(d, d), BigMul(e, e))

(***************************************************************************)
(* State.  One record per function frame, its fields named after the       *)
(* function's parameters and locals.                                       *)
(*   c1x2  the frame of calculate_1x2_and_xg                               *)
(*   cxg   the frame of calculate_xg_from_dnb_probs                        *)
(*   tab1  the locals of the tab1 block that computes the xG split and the *)
(*         odds; a local that no statement has assigned yet is None, and   *)
(*         divisions lists the divisors of the divisions 1 / p executed    *)
(*   app   the Streamlit session: st.session_state, the sidebar's          *)
(*         selection and what the last script run did                      *)
(* A frame whose pc is "idle" belongs to a function that is not running.   *)
(***************************************************************************)
VARIABLES c1x2, cxg, tab1, app

vars == <<c1x2, cxg, tab1, app>>

\* Python's None and a present value.
None == << >>
Some(v) == <<v>>

(***************************************************************************)
(* Intensities (xG).  An input is a signed fraction n/d of small integers. *)
(***************************************************************************)
Xg(n, d) == [n |-> n, d |-> d]

\* Grid of the forward model's inputs: multiples of 1/XgDen up to MaxXg.
XgDen == 1
MaxXg == 8

\* max_goals=10, the default of calculate_1x2_and_xg.
DefaultMaxGoals == 10
\* A second, smaller truncation bound the model also passes.
SmallMaxGoals == 3

(***************************************************************************)
(* poisson.pmf(k, mu) = exp(-mu) * mu^k / k!  (scipy.stats, line 28).      *)
(* Within one call of calculate_1x2_and_xg every value pmf(k, n/d), k in   *)
(* 0..max_goals, is represented by the natural number                      *)
(*        n^k * d^(max_goals-k) * max_goals!/k!                            *)
(* that is, in units of exp(-n/d) / (d^max_goals * max_goals!), a positive *)
(* factor that is the same for every k.  pmf(0, 0) = 1 and pmf(k, 0) = 0   *)
(* for k > 0, as in scipy.                                                 *)
(*                                                                         *)
(* In IEEE-754 doubles exp(t) is 0.0 for t < -745.2, so pmf(k, mu) is 0.0  *)
(* for every k <= 10 once mu >= 1000 (k ln mu - ln k! - mu <= -946).  For  *)
(* mu <= MaxXg no term underflows.  The model's inputs are of these two    *)
(* kinds only.                                                             *)
(***************************************************************************)
PmfUnderflowXg == 1000

PmfUnderflows(xg) == xg.n >= PmfUnderflowXg * xg.d

PoissonPmf(k, xg, max_goals) ==
    IF PmfUnderflows(xg)
    THEN << >>
    ELSE The({BigMul(BigMul(pn, pd), f) :
                pn \in {BigPow(BigOf(xg.n), k)},
                pd \in {BigPow(BigOf(xg.d), max_goals - k)},
                f \in {FactorialRatio(max_goals, k)}})

(***************************************************************************)
(* calculate_1x2_and_xg, lines 17-43.                                      *)
(***************************************************************************)
\* line 18: if home_xg < 0 or away_xg < 0
InputsNegativeAnd(home_xg, away_xg) == home_xg.n < 0 /\ away_xg.n < 0
InputsNegative(home_xg, away_xg) == home_xg.n < 0 \/ away_xg.n < 0

InvalidInputs == "Invalid inputs: xG values must be non-negative"

\* line 26: for home_goals in range(max_goals + 1)
HomeGoalsLast(max_goals) == max_goals
\* line 27: for away_goals in range(max_goals + 1)
AwayGoalsLastShort(max_goals) == max_goals - 1
AwayGoalsLast(max_goals) == max_goals

\* lines 29-34: the bucket a score line is added to.
BucketSwapped(home_goals, away_goals) ==
    IF home_goals < away_goals THEN "home"
    ELSE IF home_goals = away_goals THEN "draw"
    ELSE "away"
Bucket(home_goals, away_goals) ==
    IF home_goals > away_goals THEN "home"
    ELSE IF home_goals = away_goals THEN "draw"
    ELSE "away"

\* lines 27-34, one pass of the inner loop: the sum of poisson.pmf(away_goals,
\* away_xg) over the away_goals that put the score line in bucket b.
InnerSum(b, pa, home_goals, max_goals) ==
    The({BigSum(t, 1, AwayGoalsLast(max_goals) + 1) :
           t \in {AsSeq([j \in 1..(AwayGoalsLast(max_goals) + 1) |->
                          IF Bucket(home_goals, j - 1) = b THEN pa[j] ELSE << >>])}})

\* lines 26-34: the mass the double loop adds to bucket b; ph and pa are the
\* tables of poisson.pmf values of the two sides (pmf(k) at index k + 1).
\* Each p of line 28 is ph[home_goals + 1] * pa[away_goals + 1]; the products
\* of one home_goals row are summed as ph[home_goals + 1] times the row's sum
\* of pa (the arithmetic is exact, so the order of summation does not matter).
LoopSum(b, ph, pa, max_goals) ==
    The({BigSum(t, 1, HomeGoalsLast(max_goals) + 1) :
           t \in {AsSeq([i \in 1..(HomeGoalsLast(max_goals) + 1) |->
                          The({BigMul(ph[i], row) :
                                 row \in {InnerSum(b, pa, i - 1, max_goals)}})])}})

\* Number of score lines the double loop visits.
LoopTerms(max_goals) ==
    (HomeGoalsLast(max_goals) + 1) * (AwayGoalsLast(max_goals) + 1)

\* line 28: the values poisson.pmf(k, xg), k = 0 .. max_goals, as a sequence
\* (pmf(k, xg) at index k + 1).
PmfTable(xg, max_goals) ==
    AsSeq([i \in 1..(max_goals + 1) |-> PoissonPmf(i - 1, xg, max_goals)])

\* lines 22-34: the three masses after the loop over the pmf tables ph, pa.
Masses(ph, pa, max_goals) ==
    [b \in {"home", "draw", "away"} |-> LoopSum(b, ph, pa, max_goals)]

MassRecord(mass) ==
    [p_home_win |-> mass["home"], p_draw |-> mass["draw"], p_away_win |-> mass["away"]]

\* lines 22-34: p_home_win, p_draw, p_away_win after the loop.
Accumulated(home_xg, away_xg, max_goals) ==
    The({MassRecord(Masses(ph, pa, max_goals)) :
           ph \in {PmfTable(home_xg, max_goals)},
           pa \in {PmfTable(away_xg, max_goals)}})

\* line 37: total = p_home_win + p_draw + p_away_win
Total(p_home_win, p_draw, p_away_win) ==
    BigAdd(BigAdd(p_home_win, p_draw), p_away_win)

\* lines 38-43: the returned triple.  With total > 0 each mass is divided by
\* total (the common unit cancels); with total = 0 the masses, all 0.0, are
\* returned as they are.
DividedBy(p_home_win, p_draw, p_away_win, total) ==
    IF total # << >>
    THEN <<Rat(p_home_win, total), Rat(p_draw, total), Rat(p_away_win, total)>>
    ELSE <<RZero, RZero, RZero>>

Normalized(p_home_win, p_draw, p_away_win) ==
    DividedBy(p_home_win, p_draw, p_away_win, Total(p_home_win, p_draw, p_away_win))

\* lines 36-43 applied to the record of the three masses.
NormalizedRecord(acc) == Normalized(acc.p_home_win, acc.p_draw, acc.p_away_win)

\* The whole function on non-negative inputs.
Returned1x2(home_xg, away_xg, max_goals) ==
    The({NormalizedRecord(acc) : acc \in {Accumulated(home_xg, away_xg, max_goals)}})

(***************************************************************************)
(* calculate_xg_from_dnb_probs, lines 45-100.                              *)
(*                                                                         *)
(* Probabilities and intensities of this function are integers in units of *)
(* 1e-6 (Micro units per 1.0): 1e-5 is 10, 1e-4 is 100.                    *)
(***************************************************************************)
Micro == 1000 * 1000

Abs(v) == IF v < 0 THEN 0 - v ELSE v

\* a * b / Micro rounded down, computed on the halves of a and b so that no
\* intermediate value exceeds 32 bits.
MulMicro(a, b) ==
    LET ah == a \div 1000
        al == a % 1000
        bh == b \div 1000
        bl == b % 1000
    IN  ah * bh + ((ah * bl + al * bh) + (al * bl) \div 1000) \div 1000

\* max_iter=500, the default of calculate_xg_from_dnb_probs.
DefaultMaxIter == 500

\* line 59: atol=1e-4.
IsCloseAtol == 100
\* line 59: rtol is not passed, numpy's default 1e-5 applies (1 / RtolInverse).
RtolInverse == 100 * 1000

\* line 59: np.isclose(a, b, atol=1e-4), that is |a - b| <= atol + rtol * |b|.
\* On integers rtol * |b| may be rounded down: the left-hand side is whole.
IsClose(a, b) == Abs(a - b) - IsCloseAtol <= Abs(b) \div RtolInverse

\* lines 59-60: the validation fails.
DnbSumInvalid(home_dnb_prob, away_dnb_prob) ==
    ~IsClose(home_dnb_prob + away_dnb_prob, Micro)

\* A raised ValueError: the fixed text and the text formatted into it.
ValueError(text, detail) == <<text, detail>>
DnbSumError == ValueError("DNB probabilities must sum to 1", "")
OptimizationFailed(message) == ValueError("Optimization failed: ", message)

\* lines 65, 73 and 86: the floor 1e-5.
Floor == 10

\* lines 66 and 74: the penalty 1e9.
Penalty == RatOf(1000 * Micro, 1)

\* line 73: 1 - 1e-5.
DrawCeiling == RSub(ROne, RatOf(Floor, Micro))

\* Number of goals per side up to which the Skellam probabilities are summed.
SkellamGoals == 3

\* lines 69-70: skellam.cdf and skellam.pmf are the distribution of the
\* difference of two independent Poisson counts with intensities lambda_h and
\* lambda_a.  The model sums the joint Poisson masses of the score lines up to
\* SkellamGoals goals per side and divides them by their total, which is the
\* computation of calculate_1x2_and_xg with max_goals = SkellamGoals;
\* Skellam(...) is <<home_win_prob, draw_prob>> with home_win_prob =
\* 1 - cdf(0) = P(difference > 0) and draw_prob = pmf(0).
Skellam(lambda_h, lambda_a) ==
    SubSeq(Returned1x2(Xg(lambda_h, Micro), Xg(lambda_a, Micro), SkellamGoals), 1, 2)

\* line 77: model_h_dnb = home_win_prob / (1 - draw_prob)
ModelHomeDnb(home_win_prob, draw_prob) ==
    RDiv(home_win_prob, RSub(ROne, draw_prob))

\* line 78: model_a_dnb = (1 - draw_prob - home_win_prob) / (1 - draw_prob)
ModelAwayDnbWithDraw(home_win_prob, draw_prob) ==
    RDiv(RSub(ROne, home_win_prob), RSub(ROne, draw_prob))
ModelAwayDnb(home_win_prob, draw_prob) ==
    RDiv(RSub(RSub(ROne, draw_prob), home_win_prob), RSub(ROne, draw_prob))

\* lines 72-82: the error, or the penalty, from the two Skellam probabilities.
Error(home_win_prob, draw_prob, home_dnb_prob, away_dnb_prob) ==
    IF RLeq(DrawCeiling, draw_prob) THEN Penalty
    ELSE RAdd(RSqDist(ModelHomeDnb(home_win_prob, draw_prob),
                      RatOf(home_dnb_prob, Micro)),
              RSqDist(ModelAwayDnb(home_win_prob, draw_prob),
                      RatOf(away_dnb_prob, Micro)))

\* lines 68-82 for the pair sk = <<home_win_prob, draw_prob>>.
ErrorOf(sk, home_dnb_prob, away_dnb_prob) ==
    Error(sk[1], sk[2], home_dnb_prob, away_dnb_prob)

\* lines 62-82: objective(lambda_h) in the call with the given arguments;
\* lambda_a = total_xg - lambda_h.
Objective(lambda_h, home_dnb_prob, away_dnb_prob, total_xg) ==
    IF lambda_h <= Floor \/ total_xg - lambda_h <= Floor THEN Penalty
    ELSE The({ErrorOf(sk, home_dnb_prob, away_dnb_prob) :
                sk \in {Skellam(lambda_h, total_xg - lambda_h)}})

\* line 85: initial_guess = total_xg * home_dnb_prob (at the resolution 1e-6).
InitialGuess(total_xg, home_dnb_prob) == MulMicro(total_xg, home_dnb_prob)

\* line 86: bounds = [(1e-5, total_xg - 1e-5)]
LowerBound == Floor
UpperBound(total_xg) == total_xg - Floor

\* L-BFGS-B starts from x0 clipped into the bounds.
Clipped(x0, total_xg) ==
    IF x0 < LowerBound THEN LowerBound
    ELSE IF x0 > UpperBound(total_xg) THEN UpperBound(total_xg)
    ELSE x0

\* lines 98-99: round(v, 4).  A value half-way between two multiples of 1e-4
\* is not exactly representable in binary, so the float lies on either side
\* and round() may go either way: Round(v, unit) is the set of possible
\* results.
RoundingUnit == 100

Round(v, unit) ==
    LET r == v % unit
    IN  IF 2 * r < unit THEN {v - r}
        ELSE IF 2 * r > unit THEN {v - r + unit}
        ELSE {v - r, v - r + unit}

Round3(v) == Round(v, 10 * RoundingUnit)
Round4(v) == Round(v, RoundingUnit)

(***************************************************************************)
(* The Streamlit session, lines 104-232, 241-273 and 375-407.  Streamlit   *)
(* runs the script from top to bottom on every interaction; one action is  *)
(* one script run.                                                         *)
(***************************************************************************)
\* lines 104-232: leagues_dict, two of its countries with two leagues each.
\* No league code belongs to two countries.
LeaguesDict ==
    [England |-> <<"UK1", "UK2">>, Germany |-> <<"DE1", "DE2">>]

Countries == DOMAIN LeaguesDict

\* lines 375-376: both selectboxes are created with index=0.
DefaultCountry == "England"
DefaultLeague(country) == LeaguesDict[country][1]

\* A value fetch_table returns: None, or one of the page's tables.  A table
\* carries the league and table_type of the URL it came from, the click that
\* fetched it, its role on the page and its number of columns.
NoTable ==
    [kind |-> "None", league |-> "", table_type |-> "", click |-> 0,
     role |-> "", columns |-> 0]

DataFrame(league, table_type, click, role, columns) ==
    [kind |-> "DataFrame", league |-> league, table_type |-> table_type,
     click |-> click, role |-> role, columns |-> columns]

\* Column counts of a rating table (tables[14], line 251) the model passes.
RatingColumns == {3, 5}
\* Column count of a league table.
LeagueColumns == 10

\* lines 241-273: the pairs fetch_table can return.  rating_table is None
\* when the page has no table 14, league_table is None when no table has the
\* expected columns, and any exception gives (None, None).
FetchTable(league, table_type, click) ==
    {<<rating_table, league_table>> :
        rating_table \in {NoTable} \cup
            {DataFrame(league, table_type, click, "rating", c) : c \in RatingColumns},
        league_table \in {NoTable,
                          DataFrame(league, table_type, click, "league", LeagueColumns)}}

\* st.session_state: a key that is not in it is None, a key in it is Some of
\* its value.
EmptySession ==
    [home_table |-> None, away_table |-> None, league_table |-> None,
     selected_league |-> None]

\* line 386: the condition under which the button is created.
FetchWanted(session_state, selected_league) ==
    \/ session_state.home_table = None
    \/ session_state.away_table = None
    \/ session_state.selected_league # Some(selected_league)

\* line 395: isinstance(home_table, pd.DataFrame) and isinstance(away_table, pd.DataFrame)
EitherDataFrame(home_table, away_table) ==
    home_table.kind = "DataFrame" \/ away_table.kind = "DataFrame"
BothDataFrames(home_table, away_table) ==
    home_table.kind = "DataFrame" /\ away_table.kind = "DataFrame"

\* lines 396-397: table.drop(table.columns[[0, 2, 3]], axis=1); indexing the
\* columns raises IndexError when a position is out of range.
DroppedPositions == {0, 2, 3}
DropRaises(table) == \E i \in DroppedPositions : i >= table.columns
Dropped(table) ==
    [table EXCEPT !.columns = table.columns - Cardinality(DroppedPositions)]

\* line 407: the condition under which the team selectors and the ratings
\* are displayed.
TablesInSession(session_state) ==
    session_state.home_table # None /\ session_state.away_table # None

\* What a script run did: whether it created the button, whether the button
\* returned True, the locals of the fetch that the run goes on to use, the
\* message of st.success or st.error, an exception that ended the run, and
\* whether lines 408-452 displayed the team selectors and ratings.
RunRecord(button, clicked, home, away, message, raised, displayed) ==
    [button |-> button, clicked |-> clicked,
     home_table |-> home[1], home_league_table |-> home[2],
     away_table |-> away[1],
     message |-> message, raised |-> raised, displayed |-> displayed]

NotFetched == <<NoTable, NoTable>>

FetchSuccess == "Data fetched successfully!"
FetchError == "Error fetching one or both tables. Please try again."

\* lines 386-407 of a run that does not fetch: the button was not created or
\* did not return True.
RunWithoutFetch(a, country, league) ==
    [a EXCEPT
       !.selected_country = country,
       !.selected_league = league,
       !.run = RunRecord(FetchWanted(a.session_state, league), FALSE,
                         NotFetched, NotFetched, "", None,
                         TablesInSession(a.session_state))]

\* lines 395-407 of a run whose two fetch_table calls returned home and away.
RunAfterFetch(a, country, league, home, away) ==
    IF BothDataFrames(home[1], away[1])
    THEN IF DropRaises(home[1]) \/ DropRaises(away[1])
         THEN [a EXCEPT
                 !.selected_country = country,
                 !.selected_league = league,
                 !.clicks = a.clicks + 1,
                 !.run = RunRecord(TRUE, TRUE, home, away, "",
                                   Some("IndexError"), FALSE)]
         ELSE [a EXCEPT
                 !.selected_country = country,
                 !.selected_league = league,
                 !.clicks = a.clicks + 1,
                 !.session_state =
                     [home_table |-> Some(Dropped(home[1])),
                      away_table |-> Some(Dropped(away[1])),
                      league_table |-> Some(home[2]),
                      selected_league |-> Some(league)],
                 !.run = RunRecord(TRUE, TRUE, home, away, FetchSuccess, None, TRUE)]
    ELSE [a EXCEPT
            !.selected_country = country,
            !.selected_league = league,
            !.clicks = a.clicks + 1,
            !.run = RunRecord(TRUE, TRUE, home, away, FetchError, None,
                              TablesInSession(a.session_state))]

\* lines 375-407: the states a script run can leave, given the sidebar's
\* selection and whether the run was started by a click on "Get Ratings".
ScriptRuns(a, country, league, click) ==
    IF click /\ FetchWanted(a.session_state, league)
    THEN {RunAfterFetch(a, country, league, home, away) :
            home \in FetchTable(league, "home", a.clicks + 1),
            away \in FetchTable(league, "away", a.clicks + 1)}
    ELSE {RunWithoutFetch(a, country, league)}

\* The session after its first script run: nothing fetched, the default
\* selection, the button created.
FirstRun ==
    RunWithoutFetch([session_state |-> EmptySession,
                     selected_country |-> DefaultCountry,
                     selected_league |-> DefaultLeague(DefaultCountry),
                     clicks |-> 0,
                     run |-> RunRecord(FALSE, FALSE, NotFetched, NotFetched,
                                       "", None, FALSE)],
                    DefaultCountry, DefaultLeague(DefaultCountry))

\* Number of fetching clicks the model follows.
MaxClicks == 3

\* The sessions in which the block of line 407 runs right after a fetch for
\* the default selection.
SessionsWithTables ==
    {a \in ScriptRuns(FirstRun, DefaultCountry, DefaultLeague(DefaultCountry), TRUE) :
        a.run.displayed}

\* lines 474-534: total_expected_goals stays None when the league table in
\* the session is None.
TotalsOf(a, totals) ==
    IF a.session_state.league_table = Some(NoTable) THEN {None} ELSE totals

\* The user picks another country; the league selectbox, rebuilt with that
\* country's leagues, shows its first.
SelectCountry ==
    /\ \E country \in Countries \ {app.selected_country} :
          app' \in ScriptRuns(app, country, DefaultLeague(country), FALSE)
    /\ UNCHANGED <<c1x2, cxg, tab1>>

\* The user picks another league of the selected country.
SelectLeague ==
    /\ \E i \in DOMAIN LeaguesDict[app.selected_country] :
          /\ LeaguesDict[app.selected_country][i] # app.selected_league
          /\ app' \in ScriptRuns(app, app.selected_country,
                                 LeaguesDict[app.selected_country][i], FALSE)
    /\ UNCHANGED <<c1x2, cxg, tab1>>

\* The user clicks "Get Ratings", which the last run must have created.
ClickGetRatings ==
    /\ app.run.button
    /\ app.clicks < MaxClicks
    /\ app' \in ScriptRuns(app, app.selected_country, app.selected_league, TRUE)
    /\ UNCHANGED <<c1x2, cxg, tab1>>

\* Any other interaction (a team selectbox): the script runs again with the
\* same sidebar selection.
Rerun ==
    /\ app' \in ScriptRuns(app, app.selected_country, app.selected_league, FALSE)
    /\ UNCHANGED <<c1x2, cxg, tab1>>

(***************************************************************************)
(* Frames that are not running.                                            *)
(***************************************************************************)
Idle1x2 ==
    [pc |-> "idle", home_xg |-> Xg(0, 1), away_xg |-> Xg(0, 1), max_goals |-> 0,
     p_home_win |-> << >>, p_draw |-> << >>, p_away_win |-> << >>,
     terms |-> 0, raised |-> "", result |-> << >>]

FrameXg(pc, caller, home_dnb_prob, away_dnb_prob, total_xg, max_iter) ==
    [pc |-> pc, caller |-> caller,
     home_dnb_prob |-> home_dnb_prob, away_dnb_prob |-> away_dnb_prob,
     total_xg |-> total_xg, max_iter |-> max_iter,
     initial_guess |-> 0, minimize_calls |-> 0,
     result |-> None, raised |-> None, returned |-> None]

IdleXg == FrameXg("idle", "", 0, 0, 0, 0)

FrameTab1(pc, home_win_prob_dnb, away_win_prob_dnb, total_expected_goals) ==
    [pc |-> pc,
     home_win_prob_dnb |-> home_win_prob_dnb,
     away_win_prob_dnb |-> away_win_prob_dnb,
     total_expected_goals |-> total_expected_goals,
     home_xg |-> None, away_xg |-> None, errors |-> << >>,
     home_draw_no_bet_odds |-> None, away_draw_no_bet_odds |-> None,
     p_home_win |-> None, p_draw |-> None, p_away_win |-> None,
     home_odds_poisson |-> None, draw_odds_poisson |-> None,
     away_odds_poisson |-> None,
     p_under_25 |-> None, p_over_25 |-> None,
     over_odds_poisson |-> None, under_odds_poisson |-> None,
     divisions |-> << >>, raised |-> None]

IdleTab1 == FrameTab1("idle", 0, 0, None)

(***************************************************************************)
(* Inputs of calculate_xg_from_dnb_probs.                                  *)
(***************************************************************************)
\* DNB pairs the tab1 block can pass: lines 427-428 normalise them, so they
\* sum to 1.
Tab1DnbInputs == {<<500000, 500000>>, <<700000, 300000>>, <<4, 999996>>}

\* DNB pairs of a call of the function on its own: also pairs whose sum is
\* off by 1.05e-4, 0.95e-4, 1.2e-4 and 0.1.
DnbInputs ==
    Tab1DnbInputs \cup {<<500105, 500000>>, <<500095, 500000>>,
                        <<499880, 500000>>, <<600000, 500000>>}

\* total_xg: 0.00004, 0.00015, 2.6, 2.600449 and 2.60005.
TotalXgInputs == {40, 150, 2600000, 2600449, 2600050}

\* lines 525-534: total_expected_goals is None, 0 or positive.
Tab1TotalInputs == {None, Some(0)} \cup {Some(t) : t \in TotalXgInputs}

InitXg ==
    /\ c1x2 = Idle1x2
    /\ \/ /\ cxg = IdleXg
          /\ app \in SessionsWithTables
          /\ \E dnb \in Tab1DnbInputs, total \in TotalsOf(app, Tab1TotalInputs) :
                tab1 = FrameTab1("xg", dnb[1], dnb[2], total)
       \/ /\ tab1 = IdleTab1
          /\ app = FirstRun
          /\ \E dnb \in DnbInputs, total_xg \in TotalXgInputs :
                cxg = FrameXg("entry", "", dnb[1], dnb[2], total_xg, DefaultMaxIter)

(***************************************************************************)
(* The optimizer.  scipy.optimize.minimize is not part of the source; its  *)
(* result is a nondeterministic choice among the outcomes of its           *)
(* interface: result.x[0] inside the bounds, result.success, and           *)
(* result.message, one of L-BFGS-B's termination messages.                 *)
(***************************************************************************)
ConvergedMessages ==
    {"CONVERGENCE: NORM_OF_PROJECTED_GRADIENT_<=_PGTOL",
     "CONVERGENCE: REL_REDUCTION_OF_F_<=_FACTR*EPSMCH"}
FailedMessages ==
    {"STOP: TOTAL NO. of ITERATIONS REACHED LIMIT",
     "ABNORMAL_TERMINATION_IN_LNSRCH"}

\* Distances from the starting point at which the model samples result.x[0].
ResultOffsets == {0 - 400, 0 - 50, 0, 50, 400}

\* The sampled points of the search interval: its two ends, the starting point
\* and the points at ResultOffsets from it.
ResultPoints(x0, total_xg) ==
    {x \in {LowerBound, UpperBound(total_xg)} \cup {x0 + o : o \in ResultOffsets} :
        LowerBound <= x /\ x <= UpperBound(total_xg)}

OptimizeResult(x, success, message) ==
    [x |-> x, success |-> success, message |-> message]

\* lines 89-93: the results minimize(...) can hand back.
MinimizeResults(f) ==
    {OptimizeResult(x, TRUE, m) :
        x \in ResultPoints(Clipped(f.initial_guess, f.total_xg), f.total_xg),
        m \in ConvergedMessages}
    \cup
    {OptimizeResult(x, FALSE, m) :
        x \in ResultPoints(Clipped(f.initial_guess, f.total_xg), f.total_xg),
        m \in FailedMessages}

\* L-BFGS-B is a descent method: its line search accepts a step only if the
\* objective does not increase, so the objective at result.x[0] is at most
\* the objective at the (clipped) starting point.
Descends(f, x) ==
    \A at_x \in {Objective(x, f.home_dnb_prob, f.away_dnb_prob, f.total_xg)},
       at_x0 \in {Objective(Clipped(f.initial_guess, f.total_xg),
                            f.home_dnb_prob, f.away_dnb_prob, f.total_xg)} :
        RLeq(at_x, at_x0)

(***************************************************************************)
(* Actions of calculate_xg_from_dnb_probs.                                 *)
(***************************************************************************)
\* lines 59-86: the validation, then the initial guess and the bounds.
ValidateDnb ==
    /\ cxg.pc = "entry"
    /\ IF DnbSumInvalid(cxg.home_dnb_prob, cxg.away_dnb_prob)
       THEN cxg' = [cxg EXCEPT !.pc = "raised", !.raised = DnbSumError]
       ELSE cxg' = [cxg EXCEPT
                      !.pc = "minimize",
                      !.initial_guess = InitialGuess(cxg.total_xg, cxg.home_dnb_prob)]
    /\ UNCHANGED <<c1x2, tab1, app>>

\* lines 89-93: result = minimize(objective, x0=initial_guess, ...), any result.
Minimize ==
    /\ cxg.pc = "minimize"
    /\ \E r \in MinimizeResults(cxg) :
          cxg' = [cxg EXCEPT !.pc = "check",
                             !.minimize_calls = cxg.minimize_calls + 1,
                             !.result = Some(r)]
    /\ UNCHANGED <<c1x2, tab1, app>>

\* lines 89-93 with an optimizer that descends from the starting point.
MinimizeDescent ==
    /\ cxg.pc = "minimize"
    /\ \E r \in MinimizeResults(cxg) :
          /\ Descends(cxg, r.x)
          /\ cxg' = [cxg EXCEPT !.pc = "check",
                                !.minimize_calls = cxg.minimize_calls + 1,
                                !.result = Some(r)]
    /\ UNCHANGED <<c1x2, tab1, app>>

\* line 95: if not result.success
ResultFailedNever(result) == FALSE
ResultFailed(result) == ~result.success

\* lines 95-100: the failure check, the rounding and the return.
Finish ==
    /\ cxg.pc = "check"
    /\ LET result == cxg.result[1]
       IN  IF ResultFailed(result)
           THEN cxg' = [cxg EXCEPT !.pc = "raised",
                                   !.raised = OptimizationFailed(result.message)]
           ELSE \E home_xg \in Round4(result.x) :
                  \E away_xg \in Round4(cxg.total_xg - home_xg) :
                     cxg' = [cxg EXCEPT !.pc = "returned",
                                        !.returned = <<home_xg, away_xg>>]
    /\ UNCHANGED <<c1x2, tab1, app>>

(***************************************************************************)
(* The tab1 block, lines 536-547.                                          *)
(***************************************************************************)
XgErrorPrefix == "Error calculating xG from DNB probabilities: "

\* lines 537-541: home_xg = away_xg = None, then the guarded call.
Tab1CallXg ==
    /\ tab1.pc = "xg"
    /\ IF tab1.total_expected_goals # None /\ tab1.total_expected_goals[1] > 0
       THEN /\ tab1' = [tab1 EXCEPT !.pc = "solving",
                                    !.home_xg = None, !.away_xg = None]
            /\ cxg' = FrameXg("entry", "tab1", tab1.home_win_prob_dnb,
                              tab1.away_win_prob_dnb,
                              tab1.total_expected_goals[1], DefaultMaxIter)
       ELSE /\ tab1' = [tab1 EXCEPT !.pc = "odds",
                                    !.home_xg = None, !.away_xg = None]
            /\ UNCHANGED cxg
    /\ UNCHANGED <<c1x2, app>>

\* line 541: the call returned, home_xg, away_xg = ...
Tab1AssignXg ==
    /\ tab1.pc = "solving"
    /\ cxg.pc = "returned"
    /\ tab1' = [tab1 EXCEPT !.pc = "odds",
                            !.home_xg = Some(cxg.returned[1]),
                            !.away_xg = Some(cxg.returned[2])]
    /\ cxg' = [cxg EXCEPT !.pc = "done"]
    /\ UNCHANGED <<c1x2, app>>

\* lines 542-543: except ValueError as e: st.error(...)
Tab1ExceptXg ==
    /\ tab1.pc = "solving"
    /\ cxg.pc = "raised"
    /\ tab1' = [tab1 EXCEPT !.pc = "odds",
                            !.errors = Append(tab1.errors, <<XgErrorPrefix, cxg.raised>>)]
    /\ cxg' = [cxg EXCEPT !.pc = "failed"]
    /\ UNCHANGED <<c1x2, app>>

\* line 547: the guard of the 1X2 block.
Tab1OddsGuard ==
    /\ tab1.pc = "odds"
    /\ IF /\ tab1.home_xg # None /\ tab1.away_xg # None
          /\ tab1.total_expected_goals # None /\ tab1.total_expected_goals[1] > 0
       THEN tab1' = [tab1 EXCEPT !.pc = "odds_try"]
       ELSE tab1' = [tab1 EXCEPT !.pc = "odds_skipped"]
    /\ UNCHANGED <<c1x2, cxg, app>>

NextXg ==
    \/ ValidateDnb \/ Minimize \/ Finish
    \/ Tab1CallXg \/ Tab1AssignXg \/ Tab1ExceptXg \/ Tab1OddsGuard

NextDescent ==
    \/ ValidateDnb \/ MinimizeDescent \/ Finish
    \/ Tab1CallXg \/ Tab1AssignXg \/ Tab1ExceptXg \/ Tab1OddsGuard

SpecXg == InitXg /\ [][NextXg]_vars

SpecDescent == InitXg /\ [][NextDescent]_vars

(***************************************************************************)
(* Inputs of the forward model: -1/XgDen, the grid 0 .. MaxXg, and one     *)
(* intensity in the underflow range.                                       *)
(***************************************************************************)
XgInputs ==
    {Xg(n, XgDen) : n \in (-1)..(MaxXg * XgDen)} \cup {Xg(PmfUnderflowXg, 1)}

MaxGoalsInputs == {SmallMaxGoals, DefaultMaxGoals}

Frame1x2(home_xg, away_xg, max_goals) ==
    [pc |-> "entry", home_xg |-> home_xg, away_xg |-> away_xg,
     max_goals |-> max_goals,
     p_home_win |-> << >>, p_draw |-> << >>, p_away_win |-> << >>,
     terms |-> 0, raised |-> "", result |-> << >>]

Init1x2 ==
    /\ \E home_xg \in XgInputs, away_xg \in XgInputs, max_goals \in MaxGoalsInputs :
          c1x2 = Frame1x2(home_xg, away_xg, max_goals)
    /\ cxg = IdleXg
    /\ tab1 = IdleTab1
    /\ app = FirstRun

\* lines 18-24: the precondition check and the initialisation of the masses.
CheckInputs ==
    /\ c1x2.pc = "entry"
    /\ IF InputsNegative(c1x2.home_xg, c1x2.away_xg)
       THEN c1x2' = [c1x2 EXCEPT !.pc = "raised", !.raised = InvalidInputs]
       ELSE c1x2' = [c1x2 EXCEPT !.pc = "loop"]
    /\ UNCHANGED <<cxg, tab1, app>>

\* lines 26-34: the double loop.
Accumulate ==
    /\ c1x2.pc = "loop"
    /\ \E acc \in {Accumulated(c1x2.home_xg, c1x2.away_xg, c1x2.max_goals)} :
          c1x2' = [c1x2 EXCEPT !.pc = "normalize",
                               !.p_home_win = acc.p_home_win,
                               !.p_draw = acc.p_draw,
                               !.p_away_win = acc.p_away_win,
                               !.terms = LoopTerms(c1x2.max_goals)]
    /\ UNCHANGED <<cxg, tab1, app>>

\* lines 36-43: normalisation and return.
Normalize ==
    /\ c1x2.pc = "normalize"
    /\ c1x2' = [c1x2 EXCEPT
                  !.pc = "returned",
                  !.result = Normalized(c1x2.p_home_win, c1x2.p_draw, c1x2.p_away_win)]
    /\ UNCHANGED <<cxg, tab1, app>>

Next1x2 == CheckInputs \/ Accumulate \/ Normalize

SpecOutcome == Init1x2 /\ [][Next1x2]_vars

(***************************************************************************)
(* The odds of the tab1 block: the draw-no-bet odds of lines 444-446, the  *)
(* 1X2 and over/under odds of lines 547-560 and the display of lines       *)
(* 561-589.                                                                *)
(***************************************************************************)
\* float('inf') and a finite float.
Inf == <<"inf">>
Finite(r) == <<"float", r>>

\* lines 445-446, 550-552, 556-557: the condition of the expression
\*     1 / p if p > 0 else float('inf')
ProbabilityNotNegative(p) == RLeq(RZero, p)
ProbabilityPositive(p) == RLess(RZero, p)

\* The value of that expression, and the divisors of the divisions it
\* executes.
DecimalOdds(p) ==
    IF ProbabilityPositive(p) THEN Finite(RDiv(ROne, p)) ELSE Inf
Divisors(p) ==
    IF ProbabilityPositive(p) THEN <<p>> ELSE << >>

\* line 554: poisson.cdf(2, mu) = exp(-mu) * (1 + mu + mu^2 / 2) (scipy.stats).
\* exp(mu) is not rational; it is taken as its series up to the term of
\* degree CdfTerms, so the value is the sum of the first k + 1 Poisson terms
\* over the sum of the first CdfTerms + 1.  This is 1 for mu = 0 and lies
\* strictly between 0 and 1 for mu > 0, as the double does for
\* 7e-6 <= mu <= 745; from mu = PmfUnderflowXg on the double is 0.0.
CdfTerms == 12

CdfOf(t, k) == Rat(BigSum(t, 1, k + 1), BigSum(t, 1, CdfTerms + 1))

PoissonCdf(k, xg) ==
    IF PmfUnderflows(xg) THEN RZero
    ELSE The({CdfOf(t, k) : t \in {PmfTable(xg, CdfTerms)}})

\* line 553: the number of goals of "under 2.5".
UnderGoals == 2

\* Inputs of the block: the DNB pairs of lines 427-428 (one of them with a
\* home probability that underflowed to 0.0) and total_expected_goals.
OddsDnbInputs == {<<500000, 500000>>, <<700000, 300000>>, <<0, Micro>>}
OddsTotalInputs == {None, Some(0), Some(40), Some(150), Some(2600000)}

InitTab1 ==
    /\ c1x2 = Idle1x2
    /\ cxg = IdleXg
    /\ app \in SessionsWithTables
    /\ \E dnb \in OddsDnbInputs, total \in TotalsOf(app, OddsTotalInputs) :
          tab1 = FrameTab1("dnb", dnb[1], dnb[2], total)

\* lines 445-446: the draw-no-bet odds.
Tab1DnbOdds ==
    /\ tab1.pc = "dnb"
    /\ \E home \in {RatOf(tab1.home_win_prob_dnb, Micro)},
          away \in {RatOf(tab1.away_win_prob_dnb, Micro)} :
          tab1' = [tab1 EXCEPT
                     !.pc = "xg",
                     !.home_draw_no_bet_odds = DecimalOdds(home),
                     !.away_draw_no_bet_odds = DecimalOdds(away),
                     !.divisions = tab1.divisions \o Divisors(home) \o Divisors(away)]
    /\ UNCHANGED <<c1x2, cxg, app>>

\* line 549: the call calculate_1x2_and_xg(home_xg, away_xg).
Tab1Call1x2 ==
    /\ tab1.pc = "odds_try"
    /\ tab1' = [tab1 EXCEPT !.pc = "odds_call"]
    /\ c1x2' = Frame1x2(Xg(tab1.home_xg[1], Micro), Xg(tab1.away_xg[1], Micro),
                        DefaultMaxGoals)
    /\ UNCHANGED <<cxg, app>>

OddsErrorPrefix == "Error calculating 1X2 odds: "

\* lines 549-557, the rest of the try block once the call has returned p.
OddsAssigned(f, p, p_under_25, p_over_25) ==
    [f EXCEPT
       !.pc = "display",
       !.p_home_win = Some(p[1]), !.p_draw = Some(p[2]), !.p_away_win = Some(p[3]),
       !.home_odds_poisson = DecimalOdds(p[1]),
       !.draw_odds_poisson = DecimalOdds(p[2]),
       !.away_odds_poisson = DecimalOdds(p[3]),
       !.p_under_25 = Some(p_under_25),
       !.p_over_25 = Some(p_over_25),
       !.over_odds_poisson = DecimalOdds(p_over_25),
       !.under_odds_poisson = DecimalOdds(p_under_25),
       !.divisions = f.divisions \o Divisors(p[1]) \o Divisors(p[2])
                       \o Divisors(p[3]) \o Divisors(p_over_25)
                       \o Divisors(p_under_25)]

\* lines 549-560: the call has returned or raised.
Tab1Odds ==
    /\ tab1.pc = "odds_call"
    /\ c1x2.pc \in {"returned", "raised"}
    /\ IF c1x2.pc = "returned"
       THEN /\ \E p_under_25 \in {PoissonCdf(UnderGoals,
                                             Xg(tab1.total_expected_goals[1], Micro))} :
                  \E p_over_25 \in {RSub(ROne, p_under_25)} :
                     tab1' = OddsAssigned(tab1, c1x2.result, p_under_25, p_over_25)
            /\ c1x2' = [c1x2 EXCEPT !.pc = "done"]
       ELSE /\ tab1' = [tab1 EXCEPT
                          !.pc = "display",
                          !.errors = Append(tab1.errors,
                                            <<OddsErrorPrefix,
                                              ValueError(c1x2.raised, "")>>)]
            /\ c1x2' = [c1x2 EXCEPT !.pc = "failed"]
    /\ UNCHANGED <<cxg, app>>

\* lines 565-589: the locals the display formats with :.2f, in the order of
\* the statements.
Formatted ==
    <<"home_odds_poisson", "draw_odds_poisson", "away_odds_poisson",
      "home_xg", "away_xg", "total_expected_goals",
      "over_odds_poisson", "under_odds_poisson">>

\* Locals that every path assigns, possibly None (lines 528, 537, 538); the
\* others are unbound until the try block of lines 548-557 assigns them.
AlwaysBound == {"home_xg", "away_xg", "total_expected_goals"}

\* Formatting an unbound local raises NameError, formatting None TypeError.
FormatError(name) ==
    IF name \in AlwaysBound THEN <<"TypeError", name>> ELSE <<"NameError", name>>

Unformattable(f) == {i \in 1..Len(Formatted) : f[Formatted[i]] = None}

FirstUnformattable(f) ==
    CHOOSE i \in Unformattable(f) : \A j \in Unformattable(f) : i <= j

\* lines 561-589: the display; it follows the if statement of line 547
\* whether or not its body ran.
Tab1Display ==
    /\ tab1.pc \in {"display", "odds_skipped"}
    /\ IF Unformattable(tab1) = {}
       THEN tab1' = [tab1 EXCEPT !.pc = "displayed"]
       ELSE tab1' = [tab1 EXCEPT
                       !.pc = "crashed",
                       !.raised = Some(FormatError(Formatted[FirstUnformattable(tab1)]))]
    /\ UNCHANGED <<c1x2, cxg, app>>

NextTab1 ==
    \/ Tab1DnbOdds \/ Tab1CallXg
    \/ ValidateDnb \/ Minimize \/ Finish
    \/ Tab1AssignXg \/ Tab1ExceptXg \/ Tab1OddsGuard \/ Tab1Call1x2
    \/ CheckInputs \/ Accumulate \/ Normalize
    \/ Tab1Odds \/ Tab1Display

SpecTab1 == InitTab1 /\ [][NextTab1]_vars

(***************************************************************************)
(* The session on its own: script runs started by the sidebar, the button  *)
(* and other widgets.  The computations of a run that displays the teams   *)
(* are those of SpecTab1.                                                  *)
(***************************************************************************)
InitApp ==
    /\ c1x2 = Idle1x2
    /\ cxg = IdleXg
    /\ tab1 = IdleTab1
    /\ app = FirstRun

NextApp == SelectCountry \/ SelectLeague \/ ClickGetRatings \/ Rerun

SpecApp == InitApp /\ [][NextApp]_vars

(***************************************************************************)
(* Claims about calculate_1x2_and_xg, checked under SpecOutcome.           *)
(***************************************************************************)
Sum3(r) == RAdd(RAdd(r[1], r[2]), r[3])

\* C1 as stated: for every home_xg >= 0 and away_xg >= 0 the three returned
\* values are each in [0,1] and sum to 1, and for home_xg = away_xg = 0 the
\* result is exactly (0, 1, 0).
C1_SumsToOne ==
    c1x2.pc = "returned" =>
        /\ \A i \in 1..3 : RLeq(RZero, c1x2.result[i]) /\ RLeq(c1x2.result[i], ROne)
        /\ REq(Sum3(c1x2.result), ROne)
        /\ (c1x2.home_xg.n = 0 /\ c1x2.away_xg.n = 0
               => /\ REq(c1x2.result[1], RZero)
                  /\ REq(c1x2.result[2], ROne)
                  /\ REq(c1x2.result[3], RZero))

\* What the function does guarantee: the three returned values are each in
\* [0,1]; they sum to 1 when no poisson.pmf term underflows (intensities up
\* to MaxXg); when an intensity is so large (1000) that every term is 0.0,
\* total is 0 and (0, 0, 0) is returned.
SumsToOneUnlessUnderflow ==
    c1x2.pc = "returned" =>
        /\ \A i \in 1..3 : RLeq(RZero, c1x2.result[i]) /\ RLeq(c1x2.result[i], ROne)
        /\ IF PmfUnderflows(c1x2.home_xg) \/ PmfUnderflows(c1x2.away_xg)
           THEN \A i \in 1..3 : REq(c1x2.result[i], RZero)
           ELSE REq(Sum3(c1x2.result), ROne)

\* C6: calculate_1x2_and_xg(a, b) and calculate_1x2_and_xg(b, a), same
\* max_goals, return the same p_draw, and the p_home_win of one is the
\* p_away_win of the other.
C6_Symmetry ==
    c1x2.pc = "returned" =>
        \A swapped \in {Returned1x2(c1x2.away_xg, c1x2.home_xg, c1x2.max_goals)} :
            /\ REq(c1x2.result[1], swapped[3])
            /\ REq(c1x2.result[2], swapped[2])
            /\ REq(c1x2.result[3], swapped[1])

\* C6 witness: a returned call with different intensities and different win
\* probabilities of the two sides.
C6_Witness ==
    /\ c1x2.pc = "returned"
    /\ c1x2.home_xg.n * c1x2.away_xg.d > c1x2.away_xg.n * c1x2.home_xg.d
    /\ c1x2.away_xg.n > 0
    /\ RLess(c1x2.result[3], c1x2.result[1])

\* The grid points of (0, MaxXg].
RealisticXg == {Xg(n, XgDen) : n \in 1..(MaxXg * XgDen)}

\* C7: with away_xg fixed in (0, MaxXg], for any x < y in (0, MaxXg] the call
\* at y has a strictly larger p_home_win and a strictly smaller p_away_win
\* than the call at x (truncation at max_goals and renormalisation included).
C7_Monotone ==
    (c1x2.pc = "returned" /\ c1x2.home_xg \in RealisticXg
                          /\ c1x2.away_xg \in RealisticXg) =>
        \A y \in RealisticXg :
            y.n > c1x2.home_xg.n =>
                \A at_y \in {Returned1x2(y, c1x2.away_xg, c1x2.max_goals)} :
                    /\ RLess(c1x2.result[1], at_y[1])
                    /\ RLess(at_y[3], c1x2.result[3])

\* C7 witness: a returned call inside the range with a larger grid point
\* above it, at the default max_goals, where truncation cuts real mass.
C7_Witness ==
    /\ c1x2.pc = "returned"
    /\ c1x2.max_goals = DefaultMaxGoals
    /\ c1x2.home_xg = Xg(MaxXg * XgDen - 1, XgDen)
    /\ c1x2.away_xg = Xg(MaxXg * XgDen, XgDen)

\* C8: the call raises "Invalid inputs" exactly when home_xg < 0 or
\* away_xg < 0, and it does so before any probability is accumulated: no
\* loop term was visited, the masses are untouched and nothing is returned.
C8_NegativeRejected ==
    LET negative == c1x2.home_xg.n < 0 \/ c1x2.away_xg.n < 0
    IN  /\ c1x2.pc = "raised" =>
              /\ negative
              /\ c1x2.raised = InvalidInputs
              /\ c1x2.terms = 0
              /\ c1x2.p_home_win = << >> /\ c1x2.p_draw = << >> /\ c1x2.p_away_win = << >>
              /\ c1x2.result = << >>
        /\ c1x2.pc \in {"loop", "normalize", "returned"} =>
              ~negative /\ c1x2.raised = ""
        /\ c1x2.pc = "returned" => Len(c1x2.result) = 3

\* C8 witness: the error raised when only one of the two inputs is negative.
C8_Witness ==
    /\ c1x2.pc = "raised"
    /\ c1x2.home_xg.n > 0
    /\ c1x2.away_xg.n < 0

(***************************************************************************)
(* Claims about calculate_xg_from_dnb_probs, checked under SpecXg (any     *)
(* optimizer result) and SpecDescent (a descending optimizer).             *)
(***************************************************************************)
\* C3 as stated: whenever home_dnb_prob + away_dnb_prob differs from 1 by
\* more than 1e-4 the call raises "DNB probabilities must sum to 1" before the
\* optimizer is invoked and returns nothing; when the sum is within 1e-4 of 1
\* this check does not fail.
C3_SumTolerance ==
    cxg.pc # "idle" =>
        LET off == Abs(cxg.home_dnb_prob + cxg.away_dnb_prob - Micro)
        IN  /\ off > 100 =>
                  /\ cxg.pc \in {"entry", "raised", "failed"}
                  /\ cxg.pc # "entry" => cxg.raised = DnbSumError
                  /\ cxg.minimize_calls = 0
                  /\ cxg.result = None /\ cxg.returned = None
            /\ off <= 100 => cxg.raised # DnbSumError

\* C4 as stated: whenever a pair is returned, home_xg > 0 and away_xg > 0,
\* for every optimizer result inside the bounds [1e-5, total_xg - 1e-5].
C4_PositiveOutputs ==
    cxg.returned # None => cxg.returned[1] > 0 /\ cxg.returned[2] > 0

\* C5: for every returned pair, home_xg + away_xg is within 1e-4 of the input
\* total_xg, whatever point of the bounds the optimizer handed back.
C5_Conservation ==
    cxg.returned # None =>
        Abs(cxg.returned[1] + cxg.returned[2] - cxg.total_xg) <= 100

\* C5 witness: a returned pair whose home_xg was changed by the rounding and
\* whose sum is not the total exactly.
C5_Witness ==
    /\ cxg.returned # None
    /\ cxg.returned[1] # cxg.result[1].x
    /\ cxg.returned[1] + cxg.returned[2] # cxg.total_xg

\* C9: when the optimizer reports non-convergence the call raises
\* "Optimization failed: <message>" with the optimizer's message, returns no
\* pair and has called minimize once only; the tab1 block then holds exactly
\* that error for the user, leaves home_xg and away_xg at None and does not
\* enter the 1X2 computation.
C9_FailureSurfaced ==
    /\ cxg.minimize_calls <= 1
    /\ (cxg.result # None /\ cxg.pc # "check") =>
          LET result == cxg.result[1]
              e == OptimizationFailed(result.message)
          IN  ~result.success =>
                 /\ cxg.pc \in {"raised", "failed"}
                 /\ cxg.raised = e
                 /\ cxg.returned = None
                 /\ (cxg.caller = "tab1" /\ tab1.pc # "solving") =>
                        /\ cxg.pc = "failed"
                        /\ tab1.errors = <<(<<XgErrorPrefix, e>>)>>
                        /\ tab1.home_xg = None /\ tab1.away_xg = None
                        /\ tab1.pc \in {"odds", "odds_skipped"}

\* C9 witness: the tab1 block past its 1X2 guard after a call that failed
\* because the iteration limit was reached.
C9_Witness ==
    /\ tab1.pc = "odds_skipped"
    /\ cxg.pc = "failed"
    /\ cxg.result # None
    /\ cxg.result[1].message = "STOP: TOTAL NO. of ITERATIONS REACHED LIMIT"

\* C10: in calculate_xg_from_dnb_probs(0.5, 0.5, 2.6) the initial guess is
\* 1.3, the objective is 0 there, and a returned pair is (1.3, 1.3).
C10_SymmetricSplit ==
    (/\ cxg.pc \notin {"idle", "entry"}
     /\ cxg.home_dnb_prob = 500000 /\ cxg.away_dnb_prob = 500000
     /\ cxg.total_xg = 2600000) =>
        /\ cxg.initial_guess = 1300000
        /\ \A at_x0 \in {Objective(cxg.initial_guess, cxg.home_dnb_prob,
                                   cxg.away_dnb_prob, cxg.total_xg)} :
              REq(at_x0, RZero)
        /\ cxg.returned # None => cxg.returned = <<1300000, 1300000>>

\* C10 witness: the call with (0.5, 0.5, 2.6) returned (1.3, 1.3).
C10_Witness ==
    /\ cxg.home_dnb_prob = 500000 /\ cxg.away_dnb_prob = 500000
    /\ cxg.total_xg = 2600000
    /\ cxg.returned = <<1300000, 1300000>>

(***************************************************************************)
(* Claims about the odds of the tab1 block, checked under SpecTab1.        *)
(***************************************************************************)
\* o is the float 1 / p: a finite value with o * p = 1 and no zero divisor.
IsReciprocal(o, p) ==
    /\ Len(o) = 2
    /\ o[1] = "float"
    /\ o[2].den # << >>
    /\ BigMul(o[2].num, p.num) = BigMul(o[2].den, p.den)

\* o is the odds value of the probability p.
OddsOfProbability(o, p) ==
    IF p.num = << >> THEN o = Inf ELSE IsReciprocal(o, p)

\* The odds locals of the block, each with the local holding its probability.
OddsLocals ==
    {<<"home_odds_poisson", "p_home_win">>, <<"draw_odds_poisson", "p_draw">>,
     <<"away_odds_poisson", "p_away_win">>, <<"over_odds_poisson", "p_over_25">>,
     <<"under_odds_poisson", "p_under_25">>}

\* C11: every decimal odds value the block has derived (draw-no-bet, 1X2,
\* over/under 2.5) is 1 / probability when the probability is positive and
\* the infinity sentinel when it is 0, and no division executed in an odds
\* derivation had a zero divisor.
C11_OddsDerivation ==
    /\ \A i \in 1..Len(tab1.divisions) : tab1.divisions[i].num # << >>
    /\ tab1.home_draw_no_bet_odds # None =>
          OddsOfProbability(tab1.home_draw_no_bet_odds,
                            RatOf(tab1.home_win_prob_dnb, Micro))
    /\ tab1.away_draw_no_bet_odds # None =>
          OddsOfProbability(tab1.away_draw_no_bet_odds,
                            RatOf(tab1.away_win_prob_dnb, Micro))
    /\ \A l \in OddsLocals :
          tab1[l[1]] # None => OddsOfProbability(tab1[l[1]], tab1[l[2]][1])

\* C11 witness: a run that derived all seven odds values, two of them from a
\* probability of 0 (the home draw-no-bet odds and the home 1X2 odds) and the
\* others by a division.
C11_Witness ==
    /\ tab1.pc = "display"
    /\ tab1.home_win_prob_dnb = 0
    /\ tab1.home_draw_no_bet_odds = Inf
    /\ tab1.p_home_win # None
    /\ tab1.p_home_win[1].num = << >>
    /\ tab1.home_odds_poisson = Inf
    /\ Len(tab1.away_odds_poisson) = 2
    /\ Len(tab1.over_odds_poisson) = 2
    /\ Len(tab1.under_odds_poisson) = 2
    /\ Len(tab1.divisions) = 5

\* C12: whenever a run reaches the display of lines 561-589, every local the
\* display formats (the 1X2 odds, home_xg, away_xg, total_expected_goals, the
\* over and under odds) has been assigned a number in that run, and the run
\* has reported neither a solver error nor a 1X2 error.
C12_DisplayAssigned ==
    tab1.pc \in {"display", "odds_skipped"} =>
        /\ Unformattable(tab1) = {}
        /\ tab1.errors = << >>

(***************************************************************************)
(* Claims about the session, checked under SpecApp.                        *)
(***************************************************************************)
\* The table under a key of the session, if it is a table at all, came from
\* the page of the league.
FetchedFor(entry, league) ==
    /\ entry # None
    /\ entry[1].kind = "DataFrame" => entry[1].league = league

\* C13: in every script run that displays the team selectors and ratings,
\* session_state['selected_league'] is the league selected in the sidebar
\* and home_table, away_table and league_table were fetched for that league.
C13_TablesOfSelectedLeague ==
    app.run.displayed =>
        /\ app.session_state.selected_league = Some(app.selected_league)
        /\ FetchedFor(app.session_state.home_table, app.selected_league)
        /\ FetchedFor(app.session_state.away_table, app.selected_league)
        /\ FetchedFor(app.session_state.league_table, app.selected_league)

\* A fetch_table call of the run failed: a rating table is not a DataFrame.
FetchFailed(run) ==
    run.home_table.kind # "DataFrame" \/ run.away_table.kind # "DataFrame"

\* The four keys of the session were written by the run that left a: the
\* rating tables are those of its click, for the league it selected.
WrittenTogether(a) ==
    /\ TablesInSession(a.session_state)
    /\ a.session_state.home_table[1].click = a.clicks
    /\ a.session_state.home_table[1].table_type = "home"
    /\ a.session_state.away_table[1].click = a.clicks
    /\ a.session_state.away_table[1].table_type = "away"
    /\ a.session_state.league_table = Some(a.run.home_league_table)
    /\ a.session_state.selected_league = Some(a.selected_league)

\* C14: a script run started by a "Get Ratings" click in which a fetch_table
\* call failed leaves home_table, away_table, league_table and
\* selected_league of the session as they were and reports the fetch error;
\* a run changes the session only by writing the four keys together, after a
\* click whose two rating tables were both obtained.
C14_FailedFetchKeepsSession ==
    [][/\ (app'.run.clicked /\ FetchFailed(app'.run)) =>
             /\ app'.session_state = app.session_state
             /\ app'.run.message = FetchError
       /\ app'.session_state # app.session_state =>
             /\ app'.run.clicked
             /\ ~FetchFailed(app'.run)
             /\ WrittenTogether(app')]_vars

\* C14 witness: a click whose home fetch gave a rating table and whose away
\* fetch gave none, in a session that holds the tables of another league;
\* the run reported the error and the session still holds them.
C14_Witness ==
    /\ app.run.clicked
    /\ app.run.home_table.kind = "DataFrame"
    /\ app.run.away_table.kind = "None"
    /\ app.run.message = FetchError
    /\ TablesInSession(app.session_state)
    /\ app.session_state.selected_league # Some(app.selected_league)
    /\ app.session_state.home_table[1].click < app.clicks
====
